---- MODULE Spec2Model ----
(***************************************************************************)
(* Model of app/routers/reviews.py: the review router of the shop API.     *)
(*                                                                         *)
(* The store holds the Product rows and the Review rows.  A review's id is *)
(* its position in the sequence `reviews` (an autoincrement key; rows are  *)
(* never removed).  Ratings are kept in hundredths: 450 stands for 4.50.   *)
(*                                                                         *)
(* Every request runs in a slot of `req`.  A handler is cut at its awaits  *)
(* on the storage session, and steps of different requests interleave      *)
(* freely.  A read sees the committed store (READ COMMITTED); a write      *)
(* becomes visible at the commit that follows it.  Statements whose order  *)
(* against other requests cannot be observed share a step:                 *)
(*   - a request's arrival and its first query;                            *)
(*   - the UPDATE of delete_review and its commit (the UPDATE is invisible *)
(*     to every other session until the commit);                           *)
(*   - a commit and the db.refresh after it (the refresh re-reads the row  *)
(*     the request has just written, and nothing uses what it read).       *)
(*                                                                         *)
(* The session is the ORM's unit of work.  db.get returns the Product      *)
(* object the session already holds, if it holds one that is not expired,  *)
(* and reads the row otherwise; the commit writes product.rating only if   *)
(* the value assigned differs from the one the object was loaded with.     *)
(* Whether a commit expires the session's objects is the session factory's *)
(* expire_on_commit option, set outside this router: both are modelled.    *)
(***************************************************************************)
EXTENDS Integers, Sequences, FiniteSets, TLC

\* ------------------------------------------------------------ bounds
\* request slots (requests that can be in flight at once)
MaxReqs == 2
\* review rows the store may hold
MaxReviews == 3

\* ------------------------------------------------------------ inputs
Slots == 1..MaxReqs
\* buyers (current_user.id); admins need no identity: delete_review ignores it
Users == {1, 2, 3}
\* ids of the Product rows of the store; product 1 is active, product 2 is not
ProductIds == {1, 2}
ActiveProductIds == {1}
\* an id that names no Product row
MissingProduct == CHOOSE id \in 1..(Cardinality(ProductIds) + 1) : id \notin ProductIds
\* product_id values a request may carry
RequestProductIds == ProductIds \cup {MissingProduct}
\* grades a ReviewCreate may carry
Grades == {4, 5}
\* <<current_user.id, review.grade>> of the create requests: every buyer with
\* every grade where requests follow one another, and two buyers with a grade
\* each where requests interleave
AllSubmissions == Users \X Grades
Submissions == {<<1, 4>>, <<2, 5>>}
\* comments a ReviewCreate may carry
Comments == {"good"}
\* review_id values a delete request may carry (ids past the table's end too)
ReviewIds == 1..MaxReviews

VARIABLES
    \* Product rows: id -> [is_active, rating]
    products,
    \* Review rows, by id
    reviews,
    \* the requests: slot -> record
    req,
    \* history: fresh[p] is TRUE while no review write for p has been committed
    \* since the average was read on which products[p].rating rests
    fresh,
    \* the session option: a commit expires the objects the session holds
    expire_on_commit

vars == <<products, reviews, req, fresh, expire_on_commit>>

\* ------------------------------------------------------------ queries
RECURSIVE SumGrades(_, _)
\* sum of grade over the rows of rs whose ids are in ids
SumGrades(rs, ids) ==
    IF ids = {} THEN 0
    ELSE LET i == CHOOSE x \in ids : TRUE
         IN rs[i].grade + SumGrades(rs, ids \ {i})

\* variant: the is_active condition is left out of the where clause
ActiveReviewIds_counts_inactive(rs, product_id) ==
    {i \in 1..Len(rs) : rs[i].product_id = product_id}

\* the rows select(...).where(product_id == product_id, is_active == True) matches
ActiveReviewIds(rs, product_id) ==
    {i \in 1..Len(rs) : rs[i].product_id = product_id /\ rs[i].is_active}

\* select(func.avg(grade)): the average as <<sum, count>>; count 0 is SQL NULL
AvgGrade(rs, product_id) ==
    LET ids == ActiveReviewIds(rs, product_id)
    IN <<SumGrades(rs, ids), Cardinality(ids)>>

\* variant: the average is cut to 2 decimals, not rounded
Round2_truncates(sum, cnt) ==
    IF cnt = 0 \/ sum = 0 THEN 0 ELSE (100 * sum) \div cnt

\* round(float(result.scalar() or 0.0), 2), in hundredths: NULL and 0 give 0.0,
\* and round() rounds a tie to the even hundredth
Round2(sum, cnt) ==
    IF cnt = 0 \/ sum = 0 THEN 0
    ELSE LET q == (100 * sum) \div cnt
             r == (100 * sum) % cnt
         IN IF 2 * r < cnt THEN q
            ELSE IF 2 * r > cnt THEN q + 1
            ELSE IF q % 2 = 0 THEN q ELSE q + 1

\* variant: the `if product:` test is left out
GetProduct_finds_any(ps, product_id) ==
    TRUE

\* db.get(ProductModel, product_id) is not None
GetProduct(ps, product_id) ==
    product_id \in DOMAIN ps

\* variant: the is_active condition is left out of the where clause
FindActiveProduct_ignores_is_active(ps, product_id) ==
    product_id \in DOMAIN ps

\* select(ProductModel).where(id == product_id, is_active == True).first()
FindActiveProduct(ps, product_id) ==
    product_id \in DOMAIN ps /\ ps[product_id].is_active

\* variant: the product_id condition is inverted
ExistingReview_other_product(rs, user_id, product_id) ==
    \E i \in 1..Len(rs) :
        rs[i].user_id = user_id /\ rs[i].product_id # product_id /\ rs[i].is_active

\* the duplicate check: an active review of user_id for product_id exists
ExistingReview(rs, user_id, product_id) ==
    \E i \in 1..Len(rs) :
        rs[i].user_id = user_id /\ rs[i].product_id = product_id /\ rs[i].is_active

\* select(ReviewModel).where(id == review_id, is_active == True).first()
FindActiveReview(rs, review_id) ==
    review_id \in 1..Len(rs) /\ rs[review_id].is_active

\* ------------------------------------------------------------ writes
NewReview(user_id, product_id, comment, grade) ==
    [user_id |-> user_id, product_id |-> product_id, comment |-> comment,
     grade |-> grade, is_active |-> TRUE]

\* variant: an upsert that takes the buyer's old row for the product
InsertReview_reactivates(rs, user_id, product_id, comment, grade) ==
    IF \E i \in 1..Len(rs) : rs[i].user_id = user_id /\ rs[i].product_id = product_id
    THEN LET i == CHOOSE j \in 1..Len(rs) :
                      rs[j].user_id = user_id /\ rs[j].product_id = product_id
         IN [rs EXCEPT ![i] = NewReview(user_id, product_id, comment, grade)]
    ELSE Append(rs, NewReview(user_id, product_id, comment, grade))

\* db.add(ReviewModel(...)); db.commit(): a new row with the next id
InsertReview(rs, user_id, product_id, comment, grade) ==
    Append(rs, NewReview(user_id, product_id, comment, grade))

\* variant: the UPDATE is not committed before the rating is recalculated
SoftDelete_not_committed(rs, review_id) ==
    rs

\* update(ReviewModel).where(id == review_id).values(is_active=False); commit
SoftDelete(rs, review_id) ==
    IF review_id \in 1..Len(rs)
    THEN [rs EXCEPT ![review_id].is_active = FALSE]
    ELSE rs

\* product.rating = ...; db.commit()
SetRating(ps, product_id, rating) ==
    [ps EXCEPT ![product_id].rating = rating]

\* the rating of the Product object db.get returns: <<h>>, or <<>> for None;
\* cached is what the session holds (<<>>: no object, or an expired one, and
\* the row is read)
LoadProduct(ps, product_id, cached) ==
    IF cached # <<>> THEN cached
    ELSE IF product_id \in DOMAIN ps THEN <<ps[product_id].rating>>
    ELSE <<>>

\* the flush at the commit emits an UPDATE only for a changed attribute
RatingChanged(loaded, rating) ==
    loaded # <<rating>>

\* the values expire_on_commit may have
SessionOptions == BOOLEAN

\* ------------------------------------------------------------ requests
\* an empty slot; a request keeps in its slot the inputs and locals its
\* remaining statements use, and after its answer only the answer
Idle ==
    [kind |-> "none", pc |-> "idle", result |-> "none", user_id |-> 0,
     product_id |-> 0, grade |-> 0, comment |-> "", review_id |-> 0,
     avg |-> <<0, 0>>, loaded |-> <<>>, dirty |-> FALSE,
     dupAtIssue |-> FALSE, avgFresh |-> FALSE]

\* a slot that holds no running request
Free(r) == req[r].pc \in {"idle", "done", "stopped"}

InFlight(r) == ~Free(r)

\* a request takes the first slot that holds no running request
FirstFree(r) == Free(r) /\ \A s \in 1..(r - 1) : InFlight(s)

\* creates that have not yet inserted their row
PendingCreates ==
    {r \in Slots : req[r].kind = "create" /\ req[r].pc \in {"c_dup", "c_insert"}}

\* the answer of request r: result is the HTTP status
Answer(kind, result, product_id, review_id) ==
    [Idle EXCEPT !.kind = kind, !.pc = "done", !.result = result,
                 !.product_id = product_id, !.review_id = review_id]

\* a create answers for its product_id, a delete for its review_id
Finish(r, result) ==
    [req EXCEPT ![r] =
        IF req[r].kind = "create"
        THEN Answer("create", result, req[r].product_id, 0)
        ELSE Answer("delete", result, 0, req[r].review_id)]

\* a review write for product_id was committed: what was read before is stale
Stale(rq, product_id) ==
    [s \in Slots |->
        IF rq[s].product_id = product_id THEN [rq[s] EXCEPT !.avgFresh = FALSE]
        ELSE rq[s]]

Unfresh(product_id) ==
    [p \in DOMAIN fresh |-> IF p = product_id THEN FALSE ELSE fresh[p]]

Init ==
    /\ products = [p \in ProductIds |->
                      [is_active |-> p \in ActiveProductIds, rating |-> 0]]
    /\ reviews = <<>>
    /\ req = [r \in Slots |-> Idle]
    /\ fresh = [p \in ProductIds |-> TRUE]
    /\ expire_on_commit \in SessionOptions

\* ------------------------------------------------------------ GET /reviews/
\* get_all_reviews: one query; the active rows are the answer and nothing is kept
GetAllReviews(r) ==
    /\ FirstFree(r)
    /\ req' = [req EXCEPT ![r] = Answer("list", "200", 0, 0)]
    /\ UNCHANGED <<products, reviews, fresh, expire_on_commit>>

\* ------------------------------------------------------------ POST /reviews/
\* a buyer's request arrives with review = (product_id, comment, grade); the
\* product must exist and be active, else 404; the session holds the Product
\* object read here until a commit expires it
StartCreate(r, user_id, product_id, comment, grade) ==
    /\ FirstFree(r)
    /\ Len(reviews) + Cardinality(PendingCreates) < MaxReviews
    /\ req' = [req EXCEPT ![r] =
                  IF FindActiveProduct(products, product_id)
                  THEN [Idle EXCEPT !.kind = "create", !.pc = "c_dup",
                                    !.user_id = user_id, !.product_id = product_id,
                                    !.comment = comment, !.grade = grade,
                                    !.loaded =
                                        IF expire_on_commit THEN <<>>
                                        ELSE <<products[product_id].rating>>,
                                    !.dupAtIssue =
                                        ExistingReview(reviews, user_id, product_id)]
                  ELSE Answer("create", "404", product_id, 0)]
    /\ UNCHANGED <<products, reviews, fresh, expire_on_commit>>

\* the caller must have no active review for the product, else 400
CreateCheckDuplicate(r) ==
    /\ req[r].kind = "create" /\ req[r].pc = "c_dup"
    /\ req' = IF ExistingReview(reviews, req[r].user_id, req[r].product_id)
              THEN Finish(r, "400")
              ELSE [req EXCEPT ![r].pc = "c_insert", ![r].dupAtIssue = FALSE]
    /\ UNCHANGED <<products, reviews, fresh, expire_on_commit>>

\* db.add(db_review); commit; refresh: the first commit of the request
CreateInsert(r) ==
    /\ req[r].kind = "create" /\ req[r].pc = "c_insert"
    /\ reviews' = InsertReview(reviews, req[r].user_id, req[r].product_id,
                               req[r].comment, req[r].grade)
    /\ req' = [Stale(req, req[r].product_id) EXCEPT
                  ![r] = [Idle EXCEPT !.kind = "create", !.pc = "r_avg",
                                      !.product_id = req[r].product_id,
                                      !.review_id = Len(reviews'),
                                      !.loaded = req[r].loaded]]
    /\ fresh' = Unfresh(req[r].product_id)
    /\ UNCHANGED <<products, expire_on_commit>>

\* ------------------------------------------------------------ DELETE /reviews/{review_id}
\* an admin's request arrives; the review must exist and be active, else 404;
\* its product_id is kept
StartDelete(r, review_id) ==
    /\ FirstFree(r)
    /\ req' = [req EXCEPT ![r] =
                  IF FindActiveReview(reviews, review_id)
                  THEN [Idle EXCEPT !.kind = "delete", !.pc = "d_commit",
                                    !.review_id = review_id,
                                    !.product_id = reviews[review_id].product_id]
                  ELSE Answer("delete", "404", 0, review_id)]
    /\ UNCHANGED <<products, reviews, fresh, expire_on_commit>>

\* the UPDATE and db.commit(): the first commit of the request
DeleteCommit(r) ==
    /\ req[r].kind = "delete" /\ req[r].pc = "d_commit"
    /\ reviews' = SoftDelete(reviews, req[r].review_id)
    /\ IF reviews' = reviews
       THEN /\ req' = [req EXCEPT ![r].pc = "r_avg"]
            /\ fresh' = fresh
       ELSE /\ req' = [Stale(req, req[r].product_id) EXCEPT ![r].pc = "r_avg"]
            /\ fresh' = Unfresh(req[r].product_id)
    /\ UNCHANGED <<products, expire_on_commit>>

\* ------------------------------------------------------------ update_product_rating
Success(r) == IF req[r].kind = "create" THEN "201" ELSE "200"

\* select(func.avg(grade)) over the product's active reviews
RatingAvg(r) ==
    /\ req[r].pc = "r_avg"
    /\ req' = [req EXCEPT ![r].pc = "r_get",
                          ![r].avg = AvgGrade(reviews, req[r].product_id),
                          ![r].avgFresh = TRUE]
    /\ UNCHANGED <<products, reviews, fresh, expire_on_commit>>

\* db.get(ProductModel, product_id): without a product the function returns
\* and the handler answers; else product.rating = round(float(avg_rating), 2)
RatingGet(r) ==
    /\ req[r].pc = "r_get"
    /\ req' = IF GetProduct(products, req[r].product_id)
              THEN LET rating == Round2(req[r].avg[1], req[r].avg[2])
                       loaded == LoadProduct(products, req[r].product_id, req[r].loaded)
                   IN IF RatingChanged(loaded, rating)
                      THEN [req EXCEPT ![r].pc = "r_commit", ![r].loaded = <<>>,
                                       ![r].dirty = TRUE]
                      ELSE [req EXCEPT ![r].pc = "r_commit", ![r].loaded = <<>>,
                                       ![r].avg = <<0, 0>>, ![r].avgFresh = FALSE]
              ELSE Finish(r, Success(r))
    /\ UNCHANGED <<products, reviews, fresh, expire_on_commit>>

\* db.commit(); refresh: the second commit of the request writes the rating
\* if it was changed; then the handler answers
RatingCommit(r) ==
    /\ req[r].pc = "r_commit"
    /\ IF req[r].dirty
       THEN /\ products' = SetRating(products, req[r].product_id,
                                     Round2(req[r].avg[1], req[r].avg[2]))
            /\ fresh' = [p \in DOMAIN fresh |->
                            IF p = req[r].product_id THEN req[r].avgFresh ELSE fresh[p]]
       ELSE UNCHANGED <<products, fresh>>
    /\ req' = Finish(r, Success(r))
    /\ UNCHANGED <<reviews, expire_on_commit>>

\* ------------------------------------------------------------ environment
\* the request stops where it is (the worker dies, the client goes away): what it
\* has committed stays, what it has not is rolled back; result keeps the place
Stop(r) ==
    /\ InFlight(r)
    /\ req' = [req EXCEPT ![r] =
                  [Idle EXCEPT !.kind = req[r].kind, !.pc = "stopped",
                               !.result = req[r].pc]]
    /\ UNCHANGED <<products, reviews, fresh, expire_on_commit>>

Step(r) ==
    \/ CreateCheckDuplicate(r)
    \/ CreateInsert(r)
    \/ DeleteCommit(r)
    \/ RatingAvg(r)
    \/ RatingGet(r)
    \/ RatingCommit(r)

Arrive(r, submissions) ==
    \/ GetAllReviews(r)
    \/ \E ug \in submissions, p \in RequestProductIds, c \in Comments :
           StartCreate(r, ug[1], p, c, ug[2])
    \/ \E id \in ReviewIds : StartDelete(r, id)

\* requests arrive, run to their answers and interleave at their awaits
Next ==
    \E r \in Slots : Arrive(r, Submissions) \/ Step(r)

Spec == Init /\ [][Next]_vars

\* as Spec, and a request may stop at any of its awaits
NextStop ==
    \E r \in Slots : Arrive(r, Submissions) \/ Step(r) \/ Stop(r)

SpecStop == Init /\ [][NextStop]_vars

NoneInFlight == \A r \in Slots : Free(r)

\* requests run to completion one after another
NextSeq ==
    \E r \in Slots : (NoneInFlight /\ Arrive(r, AllSubmissions)) \/ Step(r)

SpecSeq == Init /\ [][NextSeq]_vars

\* a store in which a review outlives its product row: update_product_rating
\* provides for it (its `if product:`), and nothing in this router prevents it
InitOrphan ==
    /\ products = [p \in ProductIds |->
                      [is_active |-> p \in ActiveProductIds, rating |-> 0]]
    /\ reviews = <<NewReview(1, MissingProduct, "good", 4)>>
    /\ req = [r \in Slots |-> Idle]
    /\ fresh = [p \in ProductIds |-> TRUE]
    /\ expire_on_commit \in SessionOptions

SpecOrphan == InitOrphan /\ [][Next]_vars

\* ============================================================ properties
\* What the specification says of the store, stated without the operators above.

\* the product's reviews that count
Counted(p) ==
    {i \in 1..Len(reviews) : reviews[i].product_id = p /\ reviews[i].is_active = TRUE}

RECURSIVE GradeTotal(_, _)
\* the sum of grade over the counted reviews of p among the first n rows
GradeTotal(p, n) ==
    IF n = 0 THEN 0
    ELSE GradeTotal(p, n - 1) + (IF n \in Counted(p) THEN reviews[n].grade ELSE 0)

\* h hundredths is the mean of p's counted grades rounded to 2 decimals (a
\* nearest hundredth), or 0.0 when nothing counts
IsRoundedMean(h, p) ==
    LET n == Cardinality(Counted(p))
        d == 100 * GradeTotal(p, Len(reviews)) - h * n
    IN IF n = 0 THEN h = 0
       ELSE 2 * d <= n /\ -2 * d <= n

RatingIsMean(p) == IsRoundedMean(products[p].rating, p)

HasActiveReview(u, p) ==
    \E i \in Counted(p) : reviews[i].user_id = u

IsActiveProduct(p) ==
    p \in DOMAIN products /\ products[p].is_active = TRUE

StoreUnchanged == reviews' = reviews /\ products' = products

\* ------------------------------------------------------------ C1
\* C1: when requests run to completion one after another, then whenever none
\* is running every product's rating is the mean of the grades of its active
\* reviews rounded to 2 decimals, or 0.0 without an active review.
C1_RatingAfterSequentialRequests ==
    NoneInFlight => \A p \in DOMAIN products : RatingIsMean(p)

\* two buyers have an active review, a third review was deleted, and the
\* rating is their mean
C1_Witness ==
    /\ NoneInFlight
    /\ Len(reviews) = 3
    /\ Cardinality(Counted(1)) = 2
    /\ products[1].rating = 450

\* ------------------------------------------------------------ C2
\* C2 as stated: in every committed state every product's rating is the
\* rounded mean of its active reviews' grades, or 0.0.
C2_RatingAlwaysMean ==
    \A p \in DOMAIN products : RatingIsMean(p)

\* C2 as amended: every product's rating is the rounded mean of its active
\* reviews' grades (0.0 without any) in every committed state in which no
\* review insert or deactivation for the product was committed after the
\* average was read on which its current rating rests.
C2_RatingMeanWhileFresh ==
    \A p \in DOMAIN products : fresh[p] => RatingIsMean(p)

\* a rating written from an average that is still current, with a request
\* running
C2_Witness ==
    /\ fresh[1]
    /\ products[1].rating = 450
    /\ \E r \in Slots : InFlight(r)

\* ------------------------------------------------------------ C3
\* C3: no buyer has two active reviews for one product.
C3_AtMostOneActiveReview ==
    \A p \in RequestProductIds : \A i, j \in Counted(p) :
        reviews[i].user_id = reviews[j].user_id => i = j

\* ------------------------------------------------------------ C4
\* C4 as stated: a create_review issued while the buyer has an active review
\* for the product fails with 400 and writes nothing.
C4_IssuedWithReviewFails ==
    [][\A r \in Slots :
          (req[r].pc = "c_dup" /\ req[r].dupAtIssue /\ req'[r] # req[r])
              => (req'[r].pc = "done" /\ req'[r].result = "400" /\ StoreUnchanged)]_vars

\* C4 as amended: a create_review whose duplicate check runs while the buyer
\* has an active review for the product fails with 400, inserts no review and
\* leaves every review and every rating as it was.
C4_DuplicateAtCheckFails ==
    [][\A r \in Slots :
          (/\ req[r].pc = "c_dup"
           /\ HasActiveReview(req[r].user_id, req[r].product_id)
           /\ req'[r] # req[r])
              => (req'[r].pc = "done" /\ req'[r].result = "400" /\ StoreUnchanged)]_vars

\* a second create by a buyer whose review is active was answered 400
C4_Witness ==
    \E r \in Slots :
        /\ req[r].kind = "create" /\ req[r].pc = "done" /\ req[r].result = "400"
        /\ \E u \in Users : HasActiveReview(u, req[r].product_id)

\* ------------------------------------------------------------ C5
\* C5: a create_review for a product_id that names no product or an inactive
\* one is answered 404 by its first step, before any duplicate check, and
\* that step writes nothing; no review is ever inserted for such a product.
C5_BadProductIsNotFound ==
    /\ [](\A r \in Slots :
             (req[r].kind = "create" /\ ~IsActiveProduct(req[r].product_id))
                 => (req[r].pc = "done" /\ req[r].result = "404"))
    /\ [](\A i \in 1..Len(reviews) : IsActiveProduct(reviews[i].product_id))
    /\ [][\A r \in Slots :
             (/\ req'[r] # req[r]
              /\ req'[r].kind = "create"
              /\ ~IsActiveProduct(req'[r].product_id))
                 => StoreUnchanged]_vars

\* creates for the inactive and for the missing product were answered 404
\* while the store held reviews and a rating
C5_Witness ==
    /\ \E r \in Slots : req[r] = Answer("create", "404", 2, 0)
    /\ \E r \in Slots : req[r] = Answer("create", "404", MissingProduct, 0)
    /\ products[1].rating # 0

\* ------------------------------------------------------------ C6
\* C6: of two delete_review requests for one review at most one is answered
\* "Review deleted" (the other gets 404).
C6_OneDeleteSucceeds ==
    \A r, s \in Slots :
        (/\ req[r].kind = "delete" /\ req[r].pc = "done" /\ req[r].result = "200"
         /\ req[s].kind = "delete" /\ req[s].pc = "done" /\ req[s].result = "200"
         /\ req[r].review_id = req[s].review_id)
            => r = s

\* ------------------------------------------------------------ C7
\* C7: a review row stays in the store with its user_id, product_id, comment
\* and grade, and once inactive it stays inactive; a create never takes an
\* old row.
C7_RowsPermanentAndMonotone ==
    [][/\ Len(reviews') >= Len(reviews)
       /\ \A i \in 1..Len(reviews) :
             /\ reviews'[i].user_id = reviews[i].user_id
             /\ reviews'[i].product_id = reviews[i].product_id
             /\ reviews'[i].comment = reviews[i].comment
             /\ reviews'[i].grade = reviews[i].grade
             /\ (reviews[i].is_active = FALSE => reviews'[i].is_active = FALSE)]_vars

\* a buyer's review was deleted and the same buyer's later review for the
\* same product is a new row
C7_Witness ==
    \E i, j \in 1..Len(reviews) :
        /\ i < j
        /\ reviews[i].user_id = reviews[j].user_id
        /\ reviews[i].product_id = reviews[j].product_id
        /\ ~reviews[i].is_active
        /\ reviews[j].is_active

\* ------------------------------------------------------------ C8
\* C8: the rating recalculation for a product_id that names no product ends
\* in one step without an error and writes nothing, and a delete_review of a
\* review of such a product has deactivated the review when it answers
\* "Review deleted".
C8_MissingProductIsNoOp ==
    /\ [][\A r \in Slots :
             (/\ req[r].pc = "r_get"
              /\ req[r].product_id \notin DOMAIN products
              /\ req'[r] # req[r])
                 => (/\ req'[r].pc = "done"
                     /\ req'[r].result \in {"200", "201"}
                     /\ StoreUnchanged)]_vars
    /\ [](\A r \in Slots :
             (req[r].kind = "delete" /\ req[r].pc = "done" /\ req[r].result = "200")
                 => reviews[req[r].review_id].is_active = FALSE)

\* the review of a missing product was deleted and the request answered
C8_Witness ==
    \E r \in Slots :
        /\ req[r].kind = "delete" /\ req[r].pc = "done" /\ req[r].result = "200"
        /\ reviews[req[r].review_id].product_id \notin DOMAIN products
        /\ reviews[req[r].review_id].is_active = FALSE

\* ------------------------------------------------------------ C9
\* C9: a request's review write is committed before its rating recalculation
\* begins; no step writes both a review and a rating; and a request that
\* stops between its two commits leaves its review write and every rating as
\* they are.
C9_ReviewCommitBeforeRating ==
    /\ [](\A r \in Slots :
             req[r].pc \in {"r_avg", "r_get", "r_commit"} =>
                 /\ req[r].review_id \in 1..Len(reviews)
                 /\ req[r].kind = "create" =>
                        reviews[req[r].review_id].product_id = req[r].product_id
                 /\ req[r].kind = "delete" =>
                        reviews[req[r].review_id].is_active = FALSE)
    /\ [][reviews' = reviews \/ products' = products]_vars
    /\ [][\A r \in Slots :
             (req[r].pc \in {"c_insert", "d_commit"} /\ req'[r].pc \notin {req[r].pc, "stopped"})
                 => (req'[r].pc = "r_avg" /\ products' = products)]_vars
    /\ [][\A r \in Slots :
             (req[r].pc \in {"r_avg", "r_get", "r_commit"} /\ req'[r].pc = "stopped")
                 => StoreUnchanged]_vars

\* a request stopped between its two commits: its review is in the store and
\* the rating is the one from before
C9_Witness ==
    \E r \in Slots :
        /\ req[r].pc = "stopped" /\ req[r].result \in {"r_avg", "r_get", "r_commit"}
        /\ Counted(1) # {}
        /\ products[1].rating = 0

\* ------------------------------------------------------------ C10
\* C10: once every request that ran has answered and none is running, every
\* product's rating is the rounded mean of its active reviews' grades.
C10_RatingWhenQuiescent ==
    (\A r \in Slots : req[r].pc \in {"idle", "done"})
        => \A p \in DOMAIN products : RatingIsMean(p)

====
